---- MODULE Spec2Model ----
(***************************************************************************)
(* A model of Chekunin/http-client: the HttpClient struct built by         *)
(* NewHttpClient, the public method SetHeaders, the request pipeline       *)
(* DoRequestWithOptions (split at the points where another goroutine can   *)
(* run: before the client's header map is read, and during the transport   *)
(* round trip), the two codecs, and Err.Is.                                *)
(*                                                                         *)
(* Byte streams are modelled by what they carry: the format that wrote     *)
(* them, the shape of the value inside and the value.                      *)
(***************************************************************************)
EXTENDS Integers, Sequences, FiniteSets, TLC

VARIABLES params, c, call, errE, errTarget, isRet

vars == <<params, c, call, errE, errTarget, isRet>>

NIL == "nil"

(***************************************************************************)
(* Bounds of the model.                                                    *)
(***************************************************************************)
\* Err codes range over 0..MaxCode
MaxCode == 3

(***************************************************************************)
(* Program constants.                                                      *)
(***************************************************************************)
StatusOK == 200
StatusBadRequest == 400

AcceptKey == "Accept"
AcceptValue == "application/json; charset=utf-8"
HeaderKeyRequestID == "X-Request-Id"

(***************************************************************************)
(* Input domains.                                                          *)
(***************************************************************************)
Statuses == {101, StatusOK, 399, StatusBadRequest, 500}

HeaderKeys == {"x-token", "X-Token"}
HeaderVals == {"v1", "v2"}

EmptyMap == [k \in {} |-> "v1"]

\* the maps a call passes as RequestOptions.Headers
HeaderMaps == UNION {[S -> HeaderVals] : S \in SUBSET HeaderKeys}

\* the maps HttpClientParams.Headers and SetHeaders are given
ClientHeaderMaps == {m \in HeaderMaps : DOMAIN m \subseteq {"x-token"}}

\* payloads: absent, an encodable record, a value no codec can encode (a channel)
Payloads == {NIL, "payloadData", "chan"}

EmptyStream == [fmt |-> "empty", shape |-> "none", val |-> 0]

\* response bodies a server writes: an Err or a data record in either codec's
\* format, or plain text ("404 page not found")
ResponseBodies ==
  {[fmt |-> f, shape |-> s, val |-> 2] : f \in {"json", "gob"}, s \in {"Err", "data"}}
    \cup {[fmt |-> "text", shape |-> "none", val |-> 0]}

(***************************************************************************)
(* encoders.go / decoders                                                  *)
(***************************************************************************)
NilReader == [isNil |-> TRUE, data |-> EmptyStream]

BufferOf(d) == [isNil |-> FALSE, data |-> d]

GobEncoder(payload) ==
  IF payload = NIL THEN [reader |-> NilReader, err |-> NIL]
  ELSE IF payload = "chan" THEN [reader |-> NilReader, err |-> "gob enc.Encode"]
  ELSE [reader |-> BufferOf([fmt |-> "gob", shape |-> payload, val |-> 1]), err |-> NIL]

\* json.Marshal(nil) is the four bytes "null"
JsonEncoder(payload) ==
  IF payload = "chan" THEN [reader |-> NilReader, err |-> "json Marshal"]
  ELSE IF payload = NIL
    THEN [reader |-> BufferOf([fmt |-> "json", shape |-> "null", val |-> 0]), err |-> NIL]
    ELSE [reader |-> BufferOf([fmt |-> "json", shape |-> payload, val |-> 1]), err |-> NIL]

Encode(enc, payload) ==
  IF enc = "GobEncoder" THEN GobEncoder(payload) ELSE JsonEncoder(payload)

\* gob matches the wire type against the target: no common field is an error
GobDecoder(reader, shape) ==
  IF reader.fmt = "gob" /\ reader.shape = shape
    THEN [err |-> NIL, val |-> reader.val]
    ELSE [err |-> "gob dec.Decode", val |-> 0]

\* encoding/json ignores unknown fields: any JSON object decodes, and a target
\* none of whose fields occur keeps its zero value
JsonDecoder(reader, shape) ==
  IF reader.fmt = "json"
    THEN [err |-> NIL, val |-> IF reader.shape = shape THEN reader.val ELSE 0]
    ELSE [err |-> "json dec.Decode", val |-> 0]

Decode(dec, reader, shape) ==
  IF dec = "GobDecoder" THEN GobDecoder(reader, shape) ELSE JsonDecoder(reader, shape)

(***************************************************************************)
(* errors.go: Err                                                          *)
(***************************************************************************)
ErrCodes == 0..MaxCode
ErrMessages == {"", "222"}
ErrMetas == {NIL, "meta"}

NewErr(code, message, meta) ==
  [kind |-> "Err", Code |-> code, Message |-> message, Meta |-> meta]

\* an error value that is not an Err: a *Err pointer, or another error type
OtherError(kind, code) ==
  [kind |-> kind, Code |-> code, Message |-> "", Meta |-> NIL]

ErrValues == {NewErr(k, m, x) : k \in ErrCodes, m \in ErrMessages, x \in ErrMetas}

ErrorTargets ==
  ErrValues \cup {OtherError("*Err", k) : k \in ErrCodes}
            \cup {OtherError("someError", 0)}

\* Is comparing the message as well as the code
ErrIs_WithMessage(e, target) ==
  IF target.kind = "Err"
    THEN e.Code = target.Code /\ e.Message = target.Message
    ELSE FALSE

\* func (e Err) Is(target error) bool
ErrIs(e, target) ==
  IF target.kind = "Err" THEN e.Code = target.Code ELSE FALSE

\* an error as DoRequestWithOptions returns it: the messages wrapErr.Wrap put
\* around it, outermost first, and the cause they wrap
NoError == [wraps |-> <<>>, cause |-> OtherError(NIL, 0)]

Wrap(msg, err) == [wraps |-> <<msg>> \o err.wraps, cause |-> err.cause]

ErrorOf(cause) == [wraps |-> <<>>, cause |-> cause]

\* errors.Is over the chain: the cause is the target, or its Is method accepts it
ErrorsIs(err, target) ==
  \/ err.cause = target
  \/ err.cause.kind = "Err" /\ ErrIs(err.cause, target)

(***************************************************************************)
(* errors.go: HttpClient                                                   *)
(***************************************************************************)
\* classifiers a caller may pass as HttpClientParams.IsError
IsNot2xx(status) == status < 200 \/ status >= 300
Is5xx(status) == status >= 500

ApplyClassifier(f, status) ==
  IF f = "isNot2xx" THEN IsNot2xx(status) ELSE Is5xx(status)

Classifiers == {"isNot2xx", "is5xx"}

\* the error the handler of the test suite returns (someError)
HandlerError == OtherError("someError", 0)

DefaultParams ==
  [ErrorHandler |-> NIL, IsError |-> NIL, Headers |-> EmptyMap,
   RequestPayloadEncoder |-> NIL, RequestPayloadDecoder |-> NIL,
   DebugMode |-> FALSE]

\* the HttpClientParams the model constructs clients from: the policy hooks
\* varied together, the default codecs varied together, the default headers
ParamsSet ==
  {[DefaultParams EXCEPT !.ErrorHandler = h, !.IsError = f, !.DebugMode = d] :
      h \in {NIL, "someErrorHandler"}, f \in {NIL} \cup Classifiers, d \in BOOLEAN}
  \cup {[DefaultParams EXCEPT !.RequestPayloadEncoder = e, !.RequestPayloadDecoder = d] :
      e \in {NIL, "JsonEncoder", "GobEncoder"}, d \in {NIL, "JsonDecoder", "GobDecoder"}}
  \cup {[DefaultParams EXCEPT !.Headers = h] : h \in ClientHeaderMaps}

NewHttpClient(p) ==
  [errorHandler |-> p.ErrorHandler,
   isError |-> p.IsError,
   headers |-> p.Headers,
   requestPayloadEncoder |->
     IF p.RequestPayloadEncoder = NIL THEN "JsonEncoder" ELSE p.RequestPayloadEncoder,
   requestPayloadDecoder |->
     IF p.RequestPayloadDecoder = NIL THEN "JsonDecoder" ELSE p.RequestPayloadDecoder,
   headerKeyRequestID |-> HeaderKeyRequestID,
   debugMode |-> p.DebugMode]

DefaultOptions ==
  [Method |-> "POST", Headers |-> EmptyMap, Payload |-> "payloadData",
   Result |-> "responseStruct", RequestPayloadEncoder |-> NIL,
   RequestPayloadDecoder |-> NIL, AfterCallback |-> NIL, CtxRequestId |-> NIL]

\* AfterCallback values: none; one that reads both bodies and puts an equal
\* response body back (as the test suite's does); one that reads the response
\* body and leaves it consumed
Callbacks == {NIL, "peek", "drain"}

\* the RequestOptions the model calls with: the encode side varied together, the
\* decode side varied together, the headers and request id, a method the
\* standard library rejects
RequestOptionsSet ==
  {[DefaultOptions EXCEPT !.RequestPayloadEncoder = e, !.Payload = p,
                          !.AfterCallback = cb, !.Result = r] :
      e \in {NIL, "JsonEncoder", "GobEncoder"}, p \in Payloads,
      cb \in Callbacks, r \in {NIL, "responseStruct"}}
  \cup {[DefaultOptions EXCEPT !.RequestPayloadDecoder = d, !.AfterCallback = cb,
                               !.Result = r] :
      d \in {NIL, "JsonDecoder", "GobDecoder"}, cb \in Callbacks,
      r \in {NIL, "responseStruct"}}
  \cup {[DefaultOptions EXCEPT !.Headers = h, !.CtxRequestId = id] :
      h \in HeaderMaps, id \in {NIL, "req-123"}}
  \cup {[DefaultOptions EXCEPT !.Method = m, !.AfterCallback = cb] :
      m \in {"", "BAD METHOD"}, cb \in {NIL, "peek"}}

\* func (c HttpClient) setDefaultOptions(opt *RequestOptions)
setDefaultOptions(cl, opt) ==
  [opt EXCEPT
     !.Method = IF opt.Method = "" THEN "GET" ELSE opt.Method,
     !.RequestPayloadEncoder =
        IF opt.RequestPayloadEncoder = NIL THEN cl.requestPayloadEncoder
        ELSE opt.RequestPayloadEncoder,
     !.RequestPayloadDecoder =
        IF opt.RequestPayloadDecoder = NIL THEN cl.requestPayloadDecoder
        ELSE opt.RequestPayloadDecoder]

\* func (c *HttpClient) defaultIsError(resp *http.Response) bool
defaultIsError(resp) ==
  resp.StatusCode < StatusOK \/ resp.StatusCode >= StatusBadRequest

\* defaultErrorHandler returning the zero Err for a body the decoder rejects
defaultErrorHandler_NoPanic(cl, reader) ==
  IF cl.errorHandler # NIL
    THEN [panicked |-> FALSE, err |-> HandlerError, decoder |-> NIL]
    ELSE LET d == Decode(cl.requestPayloadDecoder, reader, "Err")
         IN  [panicked |-> FALSE,
              err |-> NewErr(d.val, IF d.val = 0 THEN "" ELSE "222", NIL),
              decoder |-> cl.requestPayloadDecoder]

\* func (c *HttpClient) defaultErrorHandler(reader io.Reader) error:
\* panicked is the panic(err) of a body the client's decoder rejects
defaultErrorHandler(cl, reader) ==
  IF cl.errorHandler # NIL
    THEN [panicked |-> FALSE, err |-> HandlerError, decoder |-> NIL]
    ELSE LET d == Decode(cl.requestPayloadDecoder, reader, "Err")
         IN  [panicked |-> d.err # NIL,
              err |-> NewErr(d.val, IF d.val = 0 THEN "" ELSE "222", NIL),
              decoder |-> cl.requestPayloadDecoder]

(***************************************************************************)
(* net/http as the pipeline uses it                                        *)
(***************************************************************************)
\* textproto.CanonicalMIMEHeaderKey, which http.Header.Set applies to the key
CanonicalMIMEHeaderKey(k) == IF k = "x-token" THEN "X-Token" ELSE k

\* func (h Header) Set(key, value string)
HeaderSet(h, k, v) ==
  [x \in DOMAIN h \cup {CanonicalMIMEHeaderKey(k)} |->
     IF x = CanonicalMIMEHeaderKey(k) THEN v ELSE h[x]]

\* the orders in which a range statement may visit the keys of a map
RangeOrders(m) ==
  {o \in [1..Cardinality(DOMAIN m) -> DOMAIN m] :
     \A i, j \in DOMAIN o : i # j => o[i] # o[j]}

\* for i, v := range m { req.Header.Set(i, v) }, visiting the keys in order o
RECURSIVE SetHeadersFrom(_, _, _)
SetHeadersFrom(h, m, o) ==
  IF o = <<>> THEN h
  ELSE SetHeadersFrom(HeaderSet(h, Head(o), m[Head(o)]), m, Tail(o))

\* http.NewRequestWithContext accepts a method made of token characters
validMethod(m) == m \in {"GET", "POST"}

TransportErrors == {"context canceled", "connection refused"}

Responses == [StatusCode : Statuses, Body : ResponseBodies]

\* what an AfterCallback does to the response body it is handed
AfterCallback(cb, respBody) == IF cb = "drain" THEN EmptyStream ELSE respBody

(***************************************************************************)
(* The state of the one call in flight                                     *)
(***************************************************************************)
NoResponse == [StatusCode |-> 0, Body |-> EmptyStream]

NoReturn == [resp |-> NIL, err |-> NoError]

IdleCall ==
  [pc |-> "idle", given |-> DefaultOptions, opt |-> DefaultOptions,
   encoded |-> NilReader, body |-> NilReader, reqBuffer |-> EmptyStream,
   header |-> EmptyMap, usedHeaders |-> EmptyMap, resp |-> NoResponse,
   respBody |-> EmptyStream,
   cbReqBody |-> EmptyStream, cbRespBody |-> EmptyStream,
   errDecoder |-> NIL, target |-> 0, trace |-> <<>>,
   outcome |-> "running", ret |-> NoReturn]

Returned(cl, t, resp, err) ==
  [cl EXCEPT !.pc = "done", !.trace = t, !.outcome = "returned",
             !.ret = [resp |-> resp, err |-> err]]

Panicked(cl, t) ==
  [cl EXCEPT !.pc = "done", !.trace = t, !.outcome = "panic"]

\* the diagnostics debug mode wraps around a transport or decode failure
DebugWrap(cl, err) ==
  IF cl.debugMode THEN Wrap("request took", Wrap("curl", err)) ELSE err

(***************************************************************************)
(* DoRequestWithOptions, lines 208-246: resolve the codecs, encode the     *)
(* payload, duplicate the body for the callback, build the request and set *)
(* the Accept and request-id headers.                                      *)
(***************************************************************************)
BuildRequest(given) ==
  LET opt == setDefaultOptions(c, given)
      enc == Encode(opt.RequestPayloadEncoder, opt.Payload)
      c0  == [call EXCEPT !.given = given, !.opt = opt, !.encoded = enc.reader]
      tee == opt.AfterCallback # NIL
      c1  == IF tee
               THEN [c0 EXCEPT !.reqBuffer = enc.reader.data,
                               !.body = BufferOf(enc.reader.data)]
               ELSE [c0 EXCEPT !.body = enc.reader]
      t1  == IF tee THEN <<"encode", "tee">> ELSE <<"encode">>
      h0  == HeaderSet(EmptyMap, AcceptKey, AcceptValue)
      h1  == IF opt.CtxRequestId # NIL
               THEN HeaderSet(h0, c.headerKeyRequestID, opt.CtxRequestId)
               ELSE h0
  IN  IF enc.err # NIL
        THEN Returned(c0, <<"encode">>, NIL,
                      Wrap("requestPayloadEncoder", ErrorOf(OtherError(enc.err, 0))))
      ELSE IF tee /\ enc.reader.isNil
        \* io.Copy reads from a TeeReader over a nil io.Reader
        THEN Panicked(c0, t1)
      ELSE IF ~validMethod(opt.Method)
        THEN Returned(c1, Append(t1, "newRequest"), NIL,
                      Wrap("new request with context",
                           ErrorOf(OtherError("invalid method", 0))))
      ELSE [c1 EXCEPT !.pc = "headers", !.header = h1,
                      !.trace = Append(t1, "newRequest")]

Begin ==
  /\ call.pc = "idle"
  /\ \E given \in RequestOptionsSet : call' = BuildRequest(given)
  /\ UNCHANGED <<params, c, errE, errTarget, isRet>>

(***************************************************************************)
(* Lines 248-261: read the client's header map, apply it and then the      *)
(* call's headers, and hand the request to the transport.                  *)
(***************************************************************************)
\* the two header loops in the other order
SendRequest_ClientLast(o1, o2) ==
  LET h2 == SetHeadersFrom(call.header, call.opt.Headers, o2)
      h3 == SetHeadersFrom(h2, c.headers, o1)
  IN  [call EXCEPT !.pc = "sent", !.header = h3, !.usedHeaders = c.headers,
                   !.trace = Append(call.trace, "dispatch")]

SendRequest(o1, o2) ==
  LET h2 == SetHeadersFrom(call.header, c.headers, o1)
      h3 == SetHeadersFrom(h2, call.opt.Headers, o2)
  IN  [call EXCEPT !.pc = "sent", !.header = h3, !.usedHeaders = c.headers,
                   !.trace = Append(call.trace, "dispatch")]

Dispatch ==
  /\ call.pc = "headers"
  /\ \E o1 \in RangeOrders(c.headers), o2 \in RangeOrders(call.opt.Headers) :
        call' = SendRequest(o1, o2)
  /\ UNCHANGED <<params, c, errE, errTarget, isRet>>

(***************************************************************************)
(* Lines 261-270: the transport fails.                                     *)
(***************************************************************************)
\* a transport failure sent once more before it is returned
FailRequest_Retry(cause) ==
  Returned(call, Append(call.trace, "dispatch"), NIL,
           Wrap("do http request", DebugWrap(c, ErrorOf(OtherError(cause, 0)))))

FailRequest(cause) ==
  Returned(call, call.trace, NIL,
           Wrap("do http request", DebugWrap(c, ErrorOf(OtherError(cause, 0)))))

TransportFailure ==
  /\ call.pc = "sent"
  /\ \E cause \in TransportErrors : call' = FailRequest(cause)
  /\ UNCHANGED <<params, c, errE, errTarget, isRet>>

(***************************************************************************)
(* Lines 261-299: a response arrives.                                      *)
(***************************************************************************)
\* the callback run only for a response that is not an error and has a target
InvokeAfterCallback_SuccessOnly(cl) ==
  IF cl.opt.AfterCallback # NIL /\ ~defaultIsError(cl.resp) /\ cl.opt.Result # NIL
    THEN [cl EXCEPT !.cbReqBody = cl.reqBuffer,
                    !.cbRespBody = cl.respBody,
                    !.respBody = AfterCallback(cl.opt.AfterCallback, cl.respBody),
                    !.trace = Append(cl.trace, "callback")]
    ELSE cl

\* lines 273-276: the callback gets the request, its body re-buffered, and the
\* response
InvokeAfterCallback(cl) ==
  IF cl.opt.AfterCallback # NIL
    THEN [cl EXCEPT !.cbReqBody = cl.reqBuffer,
                    !.cbRespBody = cl.respBody,
                    !.respBody = AfterCallback(cl.opt.AfterCallback, cl.respBody),
                    !.trace = Append(cl.trace, "callback")]
    ELSE cl

\* lines 278-286: the response is an error
ReturnError(cl) ==
  LET h == defaultErrorHandler(c, cl.respBody)
      t == Append(cl.trace, "errorHandler")
  IN  IF h.panicked
        THEN Panicked([cl EXCEPT !.errDecoder = h.decoder], t)
        ELSE Returned([cl EXCEPT !.errDecoder = h.decoder], t, NIL,
                      Wrap("http status code", ErrorOf(h.err)))

\* lines 287-298: decode into the result target, when there is one
ReturnResult(cl) ==
  LET d == Decode(cl.opt.RequestPayloadDecoder, cl.respBody, "data")
      t == Append(cl.trace, "decode")
  IN  IF cl.opt.Result = NIL
        THEN Returned(cl, cl.trace, "resp", NoError)
      ELSE IF d.err # NIL
        THEN Returned(cl, t, NIL,
                      Wrap("decode resp.Body",
                           DebugWrap(c, ErrorOf(OtherError(d.err, 0)))))
      ELSE Returned([cl EXCEPT !.target = d.val], t, "resp", NoError)

HandleResponse(resp) ==
  LET c1 == InvokeAfterCallback([call EXCEPT !.resp = resp, !.respBody = resp.Body])
  IN  IF defaultIsError(resp)
        THEN ReturnError([c1 EXCEPT !.trace = Append(c1.trace, "classify:error")])
        ELSE ReturnResult([c1 EXCEPT !.trace = Append(c1.trace, "classify:ok")])

Receive ==
  /\ call.pc = "sent"
  /\ \E resp \in Responses : call' = HandleResponse(resp)
  /\ UNCHANGED <<params, c, errE, errTarget, isRet>>

(***************************************************************************)
(* func (c *HttpClient) SetHeaders(headers map[string]string), called by   *)
(* another goroutine at any moment                                         *)
(***************************************************************************)
SetHeaders ==
  /\ \E headers \in ClientHeaderMaps : c' = [c EXCEPT !.headers = headers]
  /\ UNCHANGED <<params, call, errE, errTarget, isRet>>

Init ==
  /\ params \in ParamsSet
  /\ c = NewHttpClient(params)
  /\ call = IdleCall
  /\ errE = NewErr(0, "", NIL)
  /\ errTarget = NewErr(0, "", NIL)
  /\ isRet = TRUE

Next == Begin \/ Dispatch \/ TransportFailure \/ Receive \/ SetHeaders

Spec == Init /\ [][Next]_vars

(***************************************************************************)
(* Err.Is on its own: every pair of an Err and an error target             *)
(***************************************************************************)
CallIs ==
  /\ \E e \in ErrValues, target \in ErrorTargets :
        /\ errE' = e
        /\ errTarget' = target
        /\ isRet' = ErrIs(e, target)
  /\ UNCHANGED <<params, c, call>>

InitErr ==
  /\ params = DefaultParams
  /\ c = NewHttpClient(params)
  /\ call = IdleCall
  /\ errE = NewErr(0, "", NIL)
  /\ errTarget = NewErr(0, "", NIL)
  /\ isRet = ErrIs(errE, errTarget)

NextErr == CallIs

SpecErr == InitErr /\ [][NextErr]_vars

(***************************************************************************)
(* Reading the state of the call                                           *)
(***************************************************************************)
Has(e) == \E i \in DOMAIN call.trace : call.trace[i] = e

Count(e) == Cardinality({i \in DOMAIN call.trace : call.trace[i] = e})

Before(a, b) ==
  \E i, j \in DOMAIN call.trace : i < j /\ call.trace[i] = a /\ call.trace[j] = b

Done == call.pc = "done"

Started == call.pc # "idle"

Classified == Has("classify:error") \/ Has("classify:ok")

\* the unencodable payload is the one input on which both encoders fail
EncoderFailed == Started /\ call.given.Payload = "chan"

\* the request went out and the call ended without a response
TransportFailed == Done /\ Has("dispatch") /\ call.resp = NoResponse

ReturnedError ==
  call.outcome = "returned" /\ call.ret.resp = NIL /\ call.ret.err # NoError

\* req.Header.Get(k)
HeaderGet(h, k) ==
  IF CanonicalMIMEHeaderKey(k) \in DOMAIN h THEN h[CanonicalMIMEHeaderKey(k)] ELSE ""

(***************************************************************************)
(* Classification                                                          *)
(***************************************************************************)
\* the rule of the specification: the configured classifier alone when there is
\* one, otherwise status < 200 or status >= 400
SpecifiedIsError(status) ==
  IF c.isError # NIL THEN ApplyClassifier(c.isError, status)
  ELSE status < 200 \/ status >= 400

\* C1: every received response is classified as error exactly when the
\* configured classifier says so, and by the default rule (status < 200 or
\* status >= 400) only when no classifier is configured.
C1_ClassifierDecides ==
  Classified => (Has("classify:error") <=> SpecifiedIsError(call.resp.StatusCode))

(***************************************************************************)
(* The AfterCallback                                                       *)
(***************************************************************************)
\* C2 as stated: the callback runs at most once, only after the response was
\* classified as non-error and only with a non-nil result target, never for a
\* response classified as error and never after a transport or encoder failure.
C2_CallbackOnlyOnSuccess ==
  /\ Count("callback") <= 1
  /\ Has("callback") => Before("classify:ok", "callback") /\ call.opt.Result # NIL
  /\ Has("classify:error") => ~Has("callback")
  /\ TransportFailed \/ EncoderFailed => ~Has("callback")

\* C2 as amended: the callback runs at most once, exactly when a callback is set
\* and the transport returned a response, before the response is classified,
\* whatever the classification and the result target; never after a transport
\* or encoder failure.
C2_CallbackOnEveryResponse ==
  /\ Count("callback") <= 1
  /\ Has("callback") <=> (call.opt.AfterCallback # NIL /\ call.resp # NoResponse)
  /\ Has("callback") =>
        /\ Before("dispatch", "callback")
        /\ Before("callback", "classify:ok") \/ Before("callback", "classify:error")
  /\ TransportFailed \/ EncoderFailed => ~Has("callback")

C2_Witness ==
  /\ Done
  /\ Before("callback", "classify:error")
  /\ call.opt.Result = NIL

(***************************************************************************)
(* The error path                                                          *)
(***************************************************************************)
FormatOf(dec) == IF dec = "GobDecoder" THEN "gob" ELSE "json"

\* the body holds something the decoder reads into an Err without an error
ReadableAsErr(dec, body) ==
  /\ body.fmt = FormatOf(dec)
  /\ dec = "GobDecoder" => body.shape = "Err"

\* the code an Err read from the body carries
CodeIn(body) == IF body.shape = "Err" THEN body.val ELSE 0

\* C3 as stated: a response classified as error always makes the call return
\* a nil response and an error whose chain holds the handler's error when a
\* handler is set, otherwise the Err decoded from the body.
C3_ErrorAlwaysReturned ==
  Has("classify:error") =>
    /\ ReturnedError
    /\ IF c.errorHandler # NIL
         THEN ErrorsIs(call.ret.err, HandlerError)
         ELSE /\ call.ret.err.cause.kind = "Err"
              /\ call.respBody.shape = "Err" =>
                    ErrorsIs(call.ret.err, NewErr(call.respBody.val, "", NIL))

\* C3 as amended: a response classified as error makes the call return a nil
\* response and an error whose chain holds the handler's error when a handler is
\* set, otherwise the Err the client's default decoder reads from the body as
\* the callback left it; with no handler and a body that decoder rejects, the
\* call panics instead of returning.
C3_ErrorReturnedOrPanic ==
  Has("classify:error") =>
    IF c.errorHandler # NIL
      THEN ReturnedError /\ ErrorsIs(call.ret.err, HandlerError)
    ELSE IF ReadableAsErr(c.requestPayloadDecoder, call.respBody)
      THEN /\ ReturnedError
           /\ call.ret.err.cause.kind = "Err"
           /\ call.ret.err.cause.Code = CodeIn(call.respBody)
           /\ ErrorsIs(call.ret.err, NewErr(CodeIn(call.respBody), "", NIL))
    ELSE call.outcome = "panic"

\* the 400 response with body {"code":2,"message":"222"} and no handler
C3_Witness ==
  /\ Has("classify:error")
  /\ c.errorHandler = NIL
  /\ call.resp = [StatusCode |-> 400, Body |-> [fmt |-> "json", shape |-> "Err", val |-> 2]]
  /\ ReturnedError
  /\ ErrorsIs(call.ret.err, NewErr(2, "other message", NIL))

\* C10: with no handler, the error body is decoded with the decoder resolved
\* for the call: the per-call override when given, else the client default.
C10_ErrorBodyUsesResolvedDecoder ==
  Has("errorHandler") /\ c.errorHandler = NIL =>
    call.errDecoder =
      IF call.given.RequestPayloadDecoder # NIL
        THEN call.given.RequestPayloadDecoder
        ELSE c.requestPayloadDecoder

(***************************************************************************)
(* The client configuration                                                *)
(***************************************************************************)
\* C4: after NewHttpClient no public method writes a configuration field, so a
\* call builds its request from the headers the client was constructed with.
C4_ConfigurationReadOnly ==
  /\ c = NewHttpClient(params)
  /\ Has("dispatch") => call.usedHeaders = params.Headers

(***************************************************************************)
(* Dispatch                                                                *)
(***************************************************************************)
\* C5 as stated: at most one dispatch; none when the encoder fails, which
\* returns a nil response and an error; exactly one otherwise; a transport
\* failure returns a nil response and an error with no classification, callback
\* or decode.
C5_OneDispatchUnlessEncoderFails ==
  /\ Count("dispatch") <= 1
  /\ Done =>
        IF call.given.Payload = "chan"
          THEN Count("dispatch") = 0 /\ ReturnedError
          ELSE Count("dispatch") = 1
  /\ TransportFailed =>
        /\ ReturnedError
        /\ ~Classified /\ ~Has("callback") /\ ~Has("decode")

\* the call stops before the transport: the encoder fails, the duplication of
\* the body reads the nil reader the encoder returned, or the request is not built
StopsBeforeDispatch ==
  \/ call.given.Payload = "chan"
  \/ call.opt.AfterCallback # NIL /\ call.encoded.isNil
  \/ call.opt.Method \notin {"GET", "POST"}

\* C5 as amended: at most one dispatch; none when the encoder fails (nil
\* response and an error), when duplicating the body for the callback panics
\* on a nil reader, or when the request cannot be built (nil response and an
\* error); exactly one otherwise; a transport failure is not retried and returns
\* a nil response and an error with no classification, callback or decode.
C5_OneDispatchUnlessStopped ==
  /\ Count("dispatch") <= 1
  /\ Done => Count("dispatch") = IF StopsBeforeDispatch THEN 0 ELSE 1
  /\ Done /\ call.given.Payload = "chan" => ReturnedError
  /\ Done /\ call.opt.Method \notin {"GET", "POST"} /\ call.outcome # "panic" =>
        ReturnedError
  /\ TransportFailed =>
        /\ ReturnedError
        /\ ~Classified /\ ~Has("callback") /\ ~Has("decode")

C5_Witness ==
  /\ TransportFailed
  /\ Count("dispatch") = 1
  /\ call.opt.AfterCallback # NIL

(***************************************************************************)
(* The request body                                                        *)
(***************************************************************************)
\* C6: with a callback set and whatever the payload and the encoder, the call
\* does not stop before dispatch because of the duplication, the transport gets
\* the encoder's output, the callback reads the same bytes, and after a callback
\* that puts the response body back the decode step reads the whole body.
C6_DuplicationKeepsBody ==
  Started /\ call.opt.AfterCallback # NIL /\ ~EncoderFailed =>
    /\ ~(call.outcome = "panic" /\ ~Has("dispatch"))
    /\ Has("dispatch") => call.body = call.encoded
    /\ Has("callback") => call.cbReqBody = call.encoded.data
    /\ call.opt.AfterCallback = "peek" /\ Has("decode") /\ call.ret.resp # NIL =>
          /\ call.respBody = call.resp.Body
          /\ call.resp.Body.shape = "data" => call.target = call.resp.Body.val

NoBytes(reader) == reader.isNil \/ reader.data = EmptyStream

\* C8: under either codec a nil payload encodes to an empty or absent stream
\* with no error, and the request sent carries no body bytes.
C8_NilPayloadNoBody ==
  Started /\ call.given.Payload = NIL =>
    /\ NoBytes(call.encoded)
    /\ ~(Done /\ ReturnedError /\ ~Has("tee") /\ Len(call.trace) = 1)
    /\ Has("dispatch") => NoBytes(call.body)

(***************************************************************************)
(* Headers                                                                 *)
(***************************************************************************)
SameKey(k1, k2) == CanonicalMIMEHeaderKey(k1) = CanonicalMIMEHeaderKey(k2)

\* C7 as stated: every per-call header arrives on the request sent, and a key
\* the call does not supply carries the client's value when the client has one.
C7_PerCallHeadersArrive ==
  Has("dispatch") =>
    \A k \in HeaderKeys :
      /\ k \in DOMAIN call.opt.Headers =>
            HeaderGet(call.header, k) = call.opt.Headers[k]
      /\ k \in DOMAIN call.usedHeaders
           /\ (\A k2 \in DOMAIN call.opt.Headers : ~SameKey(k, k2)) =>
            HeaderGet(call.header, k) = call.usedHeaders[k]

ValuesFor(m, k) == {m[k2] : k2 \in {x \in DOMAIN m : SameKey(x, k)}}

\* C7 as amended: keys are taken in the canonical form Header.Set gives them;
\* the value sent for a key is a per-call value when the call supplies that key,
\* otherwise a client value when the client has one; a per-call header arrives
\* unless the same map holds another key of the same canonical form, and then
\* one of the two values is sent.
C7_CanonicalHeadersMerge ==
  Has("dispatch") =>
    \A k \in HeaderKeys :
      IF ValuesFor(call.opt.Headers, k) # {}
        THEN HeaderGet(call.header, k) \in ValuesFor(call.opt.Headers, k)
      ELSE IF ValuesFor(call.usedHeaders, k) # {}
        THEN HeaderGet(call.header, k) \in ValuesFor(call.usedHeaders, k)
      ELSE CanonicalMIMEHeaderKey(k) \notin DOMAIN call.header

C7_Witness ==
  /\ Has("dispatch")
  /\ call.usedHeaders = [k \in {"x-token"} |-> "v1"]
  /\ call.opt.Headers = [k \in {"X-Token"} |-> "v2"]
  /\ HeaderGet(call.header, "x-token") = "v2"

(***************************************************************************)
(* Err.Is                                                                  *)
(***************************************************************************)
\* C9: a.Is(b) holds iff b is an Err value and the codes are equal, whatever
\* the messages and metas: the relation is reflexive, symmetric and transitive
\* on Err values and false for a target that is not an Err value.
C9_IsComparesCodes ==
  /\ isRet <=> (errTarget \in ErrValues /\ errE.Code = errTarget.Code)
  /\ ErrIs(errE, errE)
  /\ errTarget \in ErrValues => (ErrIs(errTarget, errE) <=> isRet)
  /\ \A x \in ErrValues :
        errTarget \in ErrValues /\ isRet /\ ErrIs(errTarget, x) => ErrIs(errE, x)
  /\ errTarget \notin ErrValues => ~isRet

C9_Witness ==
  /\ isRet
  /\ errE.Message # errTarget.Message
  /\ errE.Meta # errTarget.Meta

====
